---- MODULE Spec2Model ----
(***************************************************************************)
(* Model of kvmd/web/js/mouse.js: the Mouse() object that turns pointer,   *)
(* touch and wheel events over the stream box into mouse_move,             *)
(* mouse_button and mouse_wheel messages on a websocket.                   *)
(*                                                                         *)
(* JavaScript is single-threaded and every handler runs to completion, so  *)
(* each handler (and the 100 ms interval callback) is one atomic action.   *)
(* The program state is the closure variables __ws, __current_pos,         *)
(* __sent_pos and __stream_hovered plus the DOM properties the code reads  *)
(* or writes.  The remaining variables are history variables: they record  *)
(* what the handlers put on the socket and never influence the program.    *)
(***************************************************************************)
EXTENDS Integers, Sequences, FiniteSets

\* ---------------------------------------------------------------- bounds
\* Largest rounded horizontal pixel offset of an event inside its target.
MaxX == 1
\* Largest number of __sendMove invocations followed in one behaviour.
MaxFlush == 3
\* Largest number of mousemove events followed between two interval ticks.
MaxBurst == 2

\* ------------------------------------------------------- input domains
\* clientWidth / clientHeight values the stream image can take (0: the
\* image is not laid out).  Powers of two, so that the double-precision
\* arithmetic of __translate is exact and equals the rational arithmetic
\* used here.
Widths == {0, 2}
Heights == {0, 2}
\* event.button codes: 0 main, 1 auxiliary (middle), 2 secondary.
ButtonCodes == {0, 1, 2}
\* event.deltaX / event.deltaY of a wheel event.
Deltas == {-1, 1}
\* The argument of setSocket: null or a websocket.
Null == "null"
Sockets == {"ws"}

\* Image extents on which __translate is applied on its own: the small ones
\* and the 800x600 image of the documentation.  On all of them, for every
\* value from 0 to the extent, the double-precision result of the source
\* expression equals the exact rational result computed here.
NormExtents == {1, 2, 3, 4, 8, 600, 800}

\* event.clientX - rect.left is a real number; it is modelled in half
\* pixels (k stands for k/2) so that Math.round has something to round.
\* Vertically the events fall at 0 or at 0.5, which rounds to 1.
HalfX == 0 .. (2 * MaxX)
HalfY == {0, 1}

\* ---------------------------------------------------------------- state
VARIABLES
    __ws,               \* the socket, or Null
    __current_pos,      \* [x, y]: last sampled pointer position
    __sent_pos,         \* [x, y]: position recorded by the last flush
    __stream_hovered,   \* BOOLEAN
    led_title,          \* $("hid-mouse-led").title
    mouse_enabled,      \* "stream-box-mouse-enabled" in stream-box.classList
    image_size,         \* [w, h]: clientWidth/clientHeight of stream-image
    \* what the last handler did
    last_ev,            \* [op, button, state]: the handler and its arguments
    out,                \* messages it sent on the socket, in order
    event,              \* [default_prevented, propagation_stopped]
    flushed,            \* number of __sendMove invocations it made
    \* history of the run
    last_move,          \* last mouse_move really sent and the pixel position
                        \* it encodes, or NoMove
    last_built,         \* last mouse_move __sendMove built: its pixel
                        \* position and whether it went out, or NoneBuilt
    n_flush,            \* number of __sendMove invocations so far
    n_move,             \* number of mouse_move messages really sent so far
    since_tick,         \* what happened since the last interval callback
    \* one application of __translate on its own
    norm                \* [value, extent, applied, result]

prog == <<__ws, __current_pos, __sent_pos, __stream_hovered, led_title,
          mouse_enabled, image_size>>
step == <<last_ev, out, event, flushed>>
counters == <<n_flush, n_move>>
interval == <<since_tick>>
tracked == <<last_move, last_built>>

vars == <<prog, step, tracked, counters, interval, norm>>

Pos(px, py) == [x |-> px, y |-> py]

NoMove == [sent |-> FALSE, msg |-> [event_type |-> "none"], pos |-> Pos(0, 0)]
NoneBuilt == [built |-> FALSE, pos |-> Pos(0, 0), transmitted |-> FALSE]

\* ------------------------------------------------------ pure functions
\* Math.round(k/2): the nearest integer, halves towards +infinity.
MathRoundHalf(k) == (k + 1) \div 2

\* Math.round(num/den) for den > 0.
MathRound(num, den) == (2 * num + den) \div (2 * den)

\* A JavaScript number as far as __translate can produce one.
Num(n) == [kind |-> "int", v |-> n]
NaN == [kind |-> "NaN", v |-> 0]
Infinity == [kind |-> "Infinity", v |-> 0]
NegInfinity == [kind |-> "-Infinity", v |-> 0]
JsonNull == [kind |-> "null", v |-> 0]

\* Variants of __translate with a slip in it.
\* Math.floor instead of Math.round.
translate_Floor(x, a, b, c, d) ==
    IF b - a = 0
    THEN IF x - a = 0 THEN NaN
         ELSE IF x - a > 0 THEN Infinity ELSE NegInfinity
    ELSE IF b - a > 0
         THEN Num(((x - a) * (d - c) + c * (b - a)) \div (b - a))
         ELSE Num(((a - x) * (d - c) + c * (a - b)) \div (a - b))

\* The last pixel b - 1, not b, is mapped to d.
translate_Inclusive(x, a, b, c, d) ==
    IF b - a - 1 = 0
    THEN IF x - a = 0 THEN NaN
         ELSE IF x - a > 0 THEN Infinity ELSE NegInfinity
    ELSE IF b - a - 1 > 0
         THEN Num(MathRound((x - a) * (d - c) + c * (b - a - 1), b - a - 1))
         ELSE Num(MathRound((a - x) * (d - c) + c * (a - b + 1), a - b + 1))

\* Math.round((x - a) / (b - a) * (d - c) + c), for d > c.
__translate(x, a, b, c, d) ==
    IF b - a = 0
    THEN IF x - a = 0 THEN NaN
         ELSE IF x - a > 0 THEN Infinity ELSE NegInfinity
    ELSE IF b - a > 0
         THEN Num(MathRound((x - a) * (d - c) + c * (b - a), b - a))
         ELSE Num(MathRound((a - x) * (d - c) + c * (a - b), a - b))

\* No application of __translate under way.
NoNorm == [value |-> 0, extent |-> 0, applied |-> FALSE, result |-> NaN]

\* JSON.stringify of a number: NaN and the infinities are written as null.
JsonNumber(n) == IF n.kind = "int" THEN n ELSE JsonNull

\* The three payloads, as they appear on the wire.
MoveMsg(pos, size) ==
    [event_type |-> "mouse_move",
     to |-> [x |-> JsonNumber(__translate(pos.x, 0, size.w, -32768, 32767)),
             y |-> JsonNumber(__translate(pos.y, 0, size.h, -32768, 32767))]]

ButtonMsg(button, state) ==
    [event_type |-> "mouse_button", button |-> button, state |-> state]

\* A variant of the wheel payload with the two deltas exchanged.
WheelMsg_Swapped(dx, dy) ==
    [event_type |-> "mouse_wheel", delta |-> [x |-> dy, y |-> dx]]

WheelMsg(dx, dy) ==
    [event_type |-> "mouse_wheel", delta |-> [x |-> dx, y |-> dy]]

\* A variant of the send that does not test __ws.
WsSend_Always(ws, msg) == <<msg>>

\* if (__ws) { __ws.send(msg) }: what reaches the socket.
WsSend(ws, msg) == IF ws # Null THEN <<msg>> ELSE <<>>

\* A variant of the switch that also knows the middle button.
ButtonName_Middle(code) ==
    IF code = 0 THEN "left"
    ELSE IF code = 1 THEN "middle"
    ELSE IF code = 2 THEN "right" ELSE Null

\* The switch of __buttonHandler: 0 -> "left", 2 -> "right", else null.
ButtonName(code) ==
    IF code = 0 THEN "left" ELSE IF code = 2 THEN "right" ELSE Null

\* Variants of the test: one that forgets the y axis, one that never
\* finds the position unchanged.
PosChanged_XOnly(pos, sent) == pos.x # sent.x
PosChanged_Always(pos, sent) == pos.x = pos.x

\* The test of __sendMove: pos.x !== sent.x || pos.y !== sent.y
PosChanged(pos, sent) == pos.x # sent.x \/ pos.y # sent.y

\* Variants of __sendMove with a slip in it.
\* It encodes the position sent before, not the current one.
sendMove_Stale(pos, sent, ws, size) ==
    IF PosChanged(pos, sent)
    THEN [sends |-> WsSend(ws, MoveMsg(sent, size)), sent_pos |-> pos]
    ELSE [sends |-> <<>>, sent_pos |-> sent]

\* It records the position only when the message went out.
sendMove_RecordIfSent(pos, sent, ws, size) ==
    IF PosChanged(pos, sent)
    THEN [sends |-> WsSend(ws, MoveMsg(pos, size)),
          sent_pos |-> IF ws # Null THEN pos ELSE sent]
    ELSE [sends |-> <<>>, sent_pos |-> sent]

\* It sends the message twice.
sendMove_Twice(pos, sent, ws, size) ==
    IF PosChanged(pos, sent)
    THEN [sends |-> WsSend(ws, MoveMsg(pos, size))
                       \o WsSend(ws, MoveMsg(pos, size)),
          sent_pos |-> pos]
    ELSE [sends |-> <<>>, sent_pos |-> sent]

\* It never records what it sent.
sendMove_NoRecord(pos, sent, ws, size) ==
    IF PosChanged(pos, sent)
    THEN [sends |-> WsSend(ws, MoveMsg(pos, size)), sent_pos |-> sent]
    ELSE [sends |-> <<>>, sent_pos |-> sent]

\* __sendMove as a function of the state it reads: what it puts on the
\* socket and the __sent_pos it leaves.
__sendMove(pos, sent, ws, size) ==
    IF PosChanged(pos, sent)
    THEN [sends |-> WsSend(ws, MoveMsg(pos, size)), sent_pos |-> pos]
    ELSE [sends |-> <<>>, sent_pos |-> sent]

\* updateLeds: the title it leaves on the led.
LedTitle(ws, hovered) ==
    IF ws # Null /\ hovered THEN "Mouse tracked" ELSE "Mouse free"

\* ------------------------------------------------------------- history
IsMove(m) == m.event_type = "mouse_move"
IsButton(m) == m.event_type = "mouse_button"
IsWheel(m) == m.event_type = "mouse_wheel"

MovesIn(s) == Cardinality({i \in 1 .. Len(s) : IsMove(s[i])})

\* What a handler leaves in the step variables.
Did(op, button, state, sends, prevented, stopped, flushes) ==
    /\ last_ev' = [op |-> op, button |-> button, state |-> state]
    /\ out' = sends
    /\ event' = [default_prevented |-> prevented,
                 propagation_stopped |-> stopped]
    /\ flushed' = flushes

\* An interval between two runs of the interval callback: whether it began
\* at a tick (and not at construction), whether a tick has closed it with
\* nothing run since, and which handlers ran in it.
Interval(after, closed, n, ts, bt) ==
    [after_tick |-> after, closed |-> closed, motions |-> n,
     touch_start |-> ts, button_or_touch |-> bt]

\* The interval that is open in a state: a closed one is followed by an
\* empty one that began at a tick.
OpenInterval(iv) ==
    IF iv.closed THEN Interval(TRUE, FALSE, 0, FALSE, FALSE) ELSE iv

\* ---------------------------------------------------------------- Init
\* The object after construction.
InitMouse ==
    /\ __ws = Null
    /\ __current_pos = Pos(0, 0)
    /\ __sent_pos = Pos(0, 0)
    /\ __stream_hovered = FALSE
    /\ led_title = "Mouse free"
    /\ mouse_enabled = FALSE
    /\ image_size \in {[w |-> iw, h |-> ih] : iw \in Widths, ih \in Heights}
    /\ last_ev = [op |-> "init", button |-> -1, state |-> FALSE]
    /\ out = <<>>
    /\ event = [default_prevented |-> FALSE, propagation_stopped |-> FALSE]
    /\ flushed = 0
    /\ last_move = NoMove
    /\ last_built = NoneBuilt
    /\ n_flush = 0
    /\ n_move = 0
    /\ since_tick = Interval(FALSE, FALSE, 0, FALSE, FALSE)

Init == InitMouse /\ norm = NoNorm

\* ------------------------------------------------------------- actions
\* self.setSocket(ws)
setSocket(ws) ==
    /\ __ws' = ws
    /\ mouse_enabled' = (ws # Null)
    /\ Did("setSocket", -1, FALSE, <<>>, FALSE, FALSE, 0)
    /\ UNCHANGED <<__current_pos, __sent_pos, __stream_hovered, led_title,
                   image_size>>

\* self.updateLeds()
updateLeds ==
    /\ led_title' = LedTitle(__ws, __stream_hovered)
    /\ Did("updateLeds", -1, FALSE, <<>>, FALSE, FALSE, 0)
    /\ UNCHANGED <<__ws, __current_pos, __sent_pos, __stream_hovered,
                   mouse_enabled, image_size>>

\* onmouseenter
__hoverStream ==
    /\ __stream_hovered' = TRUE
    /\ led_title' = LedTitle(__ws, TRUE)
    /\ Did("mouseenter", -1, FALSE, <<>>, FALSE, FALSE, 0)
    /\ UNCHANGED <<__ws, __current_pos, __sent_pos, mouse_enabled, image_size>>

\* onmouseleave
__leaveStream ==
    /\ __stream_hovered' = FALSE
    /\ led_title' = LedTitle(__ws, FALSE)
    /\ Did("mouseleave", -1, FALSE, <<>>, FALSE, FALSE, 0)
    /\ UNCHANGED <<__ws, __current_pos, __sent_pos, mouse_enabled, image_size>>

\* Variants of __touchHandler with a slip in it.
\* touchstart does not flush.
touchHandler_NoFlush(kx, ky, state) ==
    LET pos == IF state
               THEN Pos(MathRoundHalf(kx), MathRoundHalf(ky))
               ELSE __current_pos
    IN  /\ __current_pos' = pos
        /\ Did(IF state THEN "touchstart" ELSE "touchend", -1, state,
               WsSend(__ws, ButtonMsg("left", state)),
               TRUE, TRUE, IF state THEN 1 ELSE 0)
        /\ UNCHANGED <<__ws, __sent_pos, __stream_hovered, led_title,
                       mouse_enabled, image_size>>

\* touchend flushes as touchstart does.
touchHandler_AlwaysFlush(kx, ky, state) ==
    LET pos == IF state
               THEN Pos(MathRoundHalf(kx), MathRoundHalf(ky))
               ELSE __current_pos
        f == __sendMove(pos, __sent_pos, __ws, image_size)
    IN  /\ __current_pos' = pos
        /\ __sent_pos' = f.sent_pos
        /\ Did(IF state THEN "touchstart" ELSE "touchend", -1, state,
               f.sends \o WsSend(__ws, ButtonMsg("left", state)),
               TRUE, TRUE, IF state THEN 1 ELSE 0)
        /\ UNCHANGED <<__ws, __stream_hovered, led_title, mouse_enabled,
                       image_size>>

\* ontouchstart (state = TRUE), the first touch at (kx/2, ky/2) inside its
\* target, and ontouchend (state = FALSE), which reads no touch point.
__touchHandler(kx, ky, state) ==
    LET pos == IF state
               THEN Pos(MathRoundHalf(kx), MathRoundHalf(ky))
               ELSE __current_pos
        f == IF state
             THEN __sendMove(pos, __sent_pos, __ws, image_size)
             ELSE [sends |-> <<>>, sent_pos |-> __sent_pos]
    IN  /\ __current_pos' = pos
        /\ __sent_pos' = f.sent_pos
        /\ Did(IF state THEN "touchstart" ELSE "touchend", -1, state,
               f.sends \o WsSend(__ws, ButtonMsg("left", state)),
               TRUE, TRUE, IF state THEN 1 ELSE 0)
        /\ UNCHANGED <<__ws, __stream_hovered, led_title, mouse_enabled,
                       image_size>>

\* A variant of __buttonHandler that sends the button before it flushes.
buttonHandler_ButtonFirst(code, state) ==
    LET button == ButtonName(code)
        f == __sendMove(__current_pos, __sent_pos, __ws, image_size)
    IN  /\ IF button # Null
           THEN /\ __sent_pos' = f.sent_pos
                /\ Did(IF state THEN "mousedown" ELSE "mouseup", code, state,
                       WsSend(__ws, ButtonMsg(button, state)) \o f.sends,
                       TRUE, FALSE, 1)
           ELSE /\ UNCHANGED __sent_pos
                /\ Did(IF state THEN "mousedown" ELSE "mouseup", code, state,
                       <<>>, FALSE, FALSE, 0)
        /\ UNCHANGED <<__ws, __current_pos, __stream_hovered, led_title,
                       mouse_enabled, image_size>>

\* onmousedown (state = TRUE) and onmouseup (state = FALSE)
__buttonHandler(code, state) ==
    LET button == ButtonName(code)
        f == __sendMove(__current_pos, __sent_pos, __ws, image_size)
    IN  /\ IF button # Null
           THEN /\ __sent_pos' = f.sent_pos
                /\ Did(IF state THEN "mousedown" ELSE "mouseup", code, state,
                       f.sends \o WsSend(__ws, ButtonMsg(button, state)),
                       TRUE, FALSE, 1)
           ELSE /\ UNCHANGED __sent_pos
                /\ Did(IF state THEN "mousedown" ELSE "mouseup", code, state,
                       <<>>, FALSE, FALSE, 0)
        /\ UNCHANGED <<__ws, __current_pos, __stream_hovered, led_title,
                       mouse_enabled, image_size>>

\* oncontextmenu
ContextMenu ==
    /\ Did("contextmenu", -1, FALSE, <<>>, TRUE, FALSE, 0)
    /\ UNCHANGED prog

\* A variant of __moveHandler that flushes every sample at once.
moveHandler_Flushes(kx, ky) ==
    LET pos == Pos(MathRoundHalf(kx), MathRoundHalf(ky))
        f == __sendMove(pos, __sent_pos, __ws, image_size)
    IN  /\ __current_pos' = pos
        /\ __sent_pos' = f.sent_pos
        /\ Did("mousemove", -1, FALSE, f.sends, FALSE, FALSE, 1)
        /\ UNCHANGED <<__ws, __stream_hovered, led_title, mouse_enabled,
                       image_size>>

\* onmousemove, the event at (kx/2, ky/2) inside its target
__moveHandler(kx, ky) ==
    /\ __current_pos' = Pos(MathRoundHalf(kx), MathRoundHalf(ky))
    /\ Did("mousemove", -1, FALSE, <<>>, FALSE, FALSE, 0)
    /\ UNCHANGED <<__ws, __sent_pos, __stream_hovered, led_title,
                   mouse_enabled, image_size>>

\* A variant of the interval callback that does not flush.
Tick_Skips ==
    /\ Did("tick", -1, FALSE, <<>>, FALSE, FALSE, 0)
    /\ UNCHANGED prog

\* The interval callback: setInterval(__sendMove, 100)
Tick ==
    LET f == __sendMove(__current_pos, __sent_pos, __ws, image_size)
    IN  /\ __sent_pos' = f.sent_pos
        /\ Did("tick", -1, FALSE, f.sends, FALSE, FALSE, 1)
        /\ UNCHANGED <<__ws, __current_pos, __stream_hovered, led_title,
                       mouse_enabled, image_size>>

\* onwheel
__wheelHandler(dx, dy) ==
    /\ Did("wheel", -1, FALSE, WsSend(__ws, WheelMsg(dx, dy)), TRUE, FALSE, 0)
    /\ UNCHANGED prog

\* The stream image is laid out again with another size.
Resize(iw, ih) ==
    /\ image_size' = [w |-> iw, h |-> ih]
    /\ Did("resize", -1, FALSE, <<>>, FALSE, FALSE, 0)
    /\ UNCHANGED <<__ws, __current_pos, __sent_pos, __stream_hovered,
                   led_title, mouse_enabled>>

\* ------------------------------------------------ history observers
\* Each observer extends a handler's step with the update of one group of
\* history variables, read off the step the handler has just made.

\* The last mouse_move that really went out.  Every flush encodes the
\* __current_pos the handler leaves, and a mouse_move is always the first
\* message of a handler that sends one.
TrackMoves ==
    /\ last_move' = IF out' # <<>> /\ IsMove(out'[1])
                    THEN [sent |-> TRUE, msg |-> out'[1],
                          pos |-> __current_pos']
                    ELSE last_move
    /\ last_built' = IF flushed' = 1 /\ __current_pos' # __sent_pos
                     THEN [built |-> TRUE, pos |-> __current_pos',
                           transmitted |-> (out' # <<>> /\ IsMove(out'[1]))]
                     ELSE last_built
    /\ UNCHANGED <<counters, interval, norm>>

\* Flush invocations against mouse_move messages sent.
CountFlushes ==
    /\ n_flush + flushed' <= MaxFlush
    /\ n_flush' = n_flush + flushed'
    /\ n_move' = n_move + MovesIn(out')
    /\ UNCHANGED <<tracked, interval, norm>>

\* What happened since the last run of the interval callback.
IsButtonOrTouch(op) ==
    op \in {"mousedown", "mouseup", "touchstart", "touchend"}

WatchInterval ==
    LET iv == OpenInterval(since_tick)
        op == last_ev'.op
    IN  /\ since_tick' =
              IF op = "tick"
              THEN [iv EXCEPT !.closed = TRUE]
              ELSE Interval(iv.after_tick, FALSE,
                            iv.motions + (IF op = "mousemove" THEN 1 ELSE 0),
                            iv.touch_start \/ op = "touchstart",
                            iv.button_or_touch \/ IsButtonOrTouch(op))
        /\ since_tick'.motions <= MaxBurst
        /\ UNCHANGED <<tracked, counters, norm>>

\* ------------------------------------------------ the specifications
\* The handlers alone, no history kept beyond the last step.
NoHistory == UNCHANGED <<tracked, counters, interval, norm>>

\* Every handler can run at any time, in any order.
Next ==
    \/ \E ws \in Sockets \cup {Null} : setSocket(ws) /\ NoHistory
    \/ updateLeds /\ NoHistory
    \/ __hoverStream /\ NoHistory
    \/ __leaveStream /\ NoHistory
    \/ \E kx \in HalfX, ky \in HalfY, st \in BOOLEAN :
          __touchHandler(kx, ky, st) /\ NoHistory
    \/ \E code \in ButtonCodes, st \in BOOLEAN :
          __buttonHandler(code, st) /\ NoHistory
    \/ ContextMenu /\ NoHistory
    \/ \E kx \in HalfX, ky \in HalfY : __moveHandler(kx, ky) /\ NoHistory
    \/ Tick /\ NoHistory
    \/ \E dx \in Deltas, dy \in Deltas : __wheelHandler(dx, dy) /\ NoHistory
    \/ \E iw \in Widths, ih \in Heights : Resize(iw, ih) /\ NoHistory

Spec == Init /\ [][Next]_vars

\* setInterval keeps calling __sendMove every 100 ms for the life of the
\* page: the interval callback cannot be put off for ever.
SpecLive == Spec /\ WF_vars(Tick /\ NoHistory)

\* The same handlers, tracking the last mouse_move built and sent.
NextTrack ==
    \/ \E ws \in Sockets \cup {Null} : setSocket(ws) /\ TrackMoves
    \/ updateLeds /\ TrackMoves
    \/ __hoverStream /\ TrackMoves
    \/ __leaveStream /\ TrackMoves
    \/ \E kx \in HalfX, ky \in HalfY, st \in BOOLEAN :
          __touchHandler(kx, ky, st) /\ TrackMoves
    \/ \E code \in ButtonCodes, st \in BOOLEAN :
          __buttonHandler(code, st) /\ TrackMoves
    \/ ContextMenu /\ TrackMoves
    \/ \E kx \in HalfX, ky \in HalfY : __moveHandler(kx, ky) /\ TrackMoves
    \/ Tick /\ TrackMoves
    \/ \E dx \in Deltas, dy \in Deltas : __wheelHandler(dx, dy) /\ TrackMoves
    \/ \E iw \in Widths, ih \in Heights : Resize(iw, ih) /\ TrackMoves

SpecTrack == Init /\ [][NextTrack]_vars

\* The same handlers, counting flushes and messages.
NextCount ==
    \/ \E ws \in Sockets \cup {Null} : setSocket(ws) /\ CountFlushes
    \/ updateLeds /\ CountFlushes
    \/ __hoverStream /\ CountFlushes
    \/ __leaveStream /\ CountFlushes
    \/ \E kx \in HalfX, ky \in HalfY, st \in BOOLEAN :
          __touchHandler(kx, ky, st) /\ CountFlushes
    \/ \E code \in ButtonCodes, st \in BOOLEAN :
          __buttonHandler(code, st) /\ CountFlushes
    \/ ContextMenu /\ CountFlushes
    \/ \E kx \in HalfX, ky \in HalfY : __moveHandler(kx, ky) /\ CountFlushes
    \/ Tick /\ CountFlushes
    \/ \E dx \in Deltas, dy \in Deltas : __wheelHandler(dx, dy) /\ CountFlushes
    \/ \E iw \in Widths, ih \in Heights : Resize(iw, ih) /\ CountFlushes

SpecCount == Init /\ [][NextCount]_vars

\* The same handlers, watching the interval between two ticks.
NextTick ==
    \/ \E ws \in Sockets \cup {Null} : setSocket(ws) /\ WatchInterval
    \/ updateLeds /\ WatchInterval
    \/ __hoverStream /\ WatchInterval
    \/ __leaveStream /\ WatchInterval
    \/ \E kx \in HalfX, ky \in HalfY, st \in BOOLEAN :
          __touchHandler(kx, ky, st) /\ WatchInterval
    \/ \E code \in ButtonCodes, st \in BOOLEAN :
          __buttonHandler(code, st) /\ WatchInterval
    \/ ContextMenu /\ WatchInterval
    \/ \E kx \in HalfX, ky \in HalfY : __moveHandler(kx, ky) /\ WatchInterval
    \/ Tick /\ WatchInterval
    \/ \E dx \in Deltas, dy \in Deltas : __wheelHandler(dx, dy) /\ WatchInterval
    \/ \E iw \in Widths, ih \in Heights : Resize(iw, ih) /\ WatchInterval

SpecTick == Init /\ [][NextTick]_vars

\* __translate on its own: one value against one extent, the way __sendMove
\* calls it, on a freshly constructed object.
InitNorm ==
    /\ InitMouse
    /\ norm \in {[value |-> p, extent |-> e, applied |-> FALSE, result |-> NaN] :
                    e \in NormExtents, p \in 0 .. 800}
    /\ norm.value <= norm.extent

Normalize ==
    /\ ~norm.applied
    /\ norm' = [norm EXCEPT
                   !.applied = TRUE,
                   !.result = __translate(norm.value, 0, norm.extent,
                                          -32768, 32767)]
    /\ UNCHANGED <<prog, step, tracked, counters, interval>>

NextNorm == Normalize

SpecNorm == InitNorm /\ [][NextNorm]_vars

\* ------------------------------------------------------------ properties
IsMouseButtonOp(op) == op \in {"mousedown", "mouseup"}
NameOfCode(code) == IF code = 0 THEN "left" ELSE "right"
IsPress(m) == IsButton(m) /\ m.state
HasPress(s) == \E i \in 1 .. Len(s) : IsPress(s[i])

\* C1: a mousedown or mouseup with code 0 or 2, handled while a socket is
\* set and __current_pos differs from __sent_pos, sends exactly the
\* mouse_move of __current_pos and then the mouse_button, nothing between.
C1_MoveBeforeButton ==
    [][(/\ IsMouseButtonOp(last_ev'.op)
        /\ last_ev'.button \in {0, 2}
        /\ __ws # Null
        /\ __current_pos # __sent_pos)
       => out' = <<MoveMsg(__current_pos, image_size),
                   ButtonMsg(NameOfCode(last_ev'.button), last_ev'.state)>>]_vars

C1_Witness ==
    /\ last_ev.op = "mousedown"
    /\ last_ev.button = 2
    /\ Len(out) = 2
    /\ out[1] = MoveMsg(__current_pos, image_size)
    /\ out[2] = ButtonMsg("right", TRUE)
    /\ __current_pos # Pos(0, 0)

\* C2 as stated: whenever a press goes out, the last mouse_move that went
\* out before it exists and encodes the __current_pos of that moment.
C2_LastMoveIsAuthoritative ==
    HasPress(out) =>
        /\ last_move.sent
        /\ last_move.msg = MoveMsg(__current_pos, image_size)

\* C2 amended: whenever a press goes out, the handler has flushed first:
\* __sent_pos equals __current_pos when the press is sent; if they differed
\* when the handler flushed, the message right before the press is the
\* mouse_move of __current_pos under the image size of that moment and it
\* is the last mouse_move sent; if they did not differ the handler sends
\* the press alone and the last mouse_move sent stays what it was.
C2_PressIsFlushedFirst ==
    [][HasPress(out') =>
        /\ __sent_pos' = __current_pos'
        /\ IsPress(out'[Len(out')])
        /\ IF __current_pos' # __sent_pos
           THEN /\ Len(out') = 2
                /\ out'[1] = MoveMsg(__current_pos', image_size')
                /\ last_move'.sent
                /\ last_move'.msg = out'[1]
                /\ last_move'.pos = __current_pos'
           ELSE /\ Len(out') = 1
                /\ last_move' = last_move]_vars

C2_Witness ==
    /\ last_ev.op = "touchstart"
    /\ Len(out) = 2
    /\ IsPress(out[2])
    /\ last_move.msg = out[1]
    /\ last_move.pos = __current_pos
    /\ last_built.built

\* C3 as stated: __sent_pos is the pixel position of the last mouse_move
\* that really went out, or (0,0) if none did.
C3_SentIsLastTransmitted ==
    __sent_pos = (IF last_move.sent THEN last_move.pos ELSE Pos(0, 0))

\* C3 amended: __sent_pos is the pixel position of the last mouse_move that
\* __sendMove built, whether it went out or was dropped for want of a
\* socket, or (0,0) if none was built; it is the position of the last
\* mouse_move sent whenever the last one built went out.
C3_SentIsLastBuilt ==
    /\ __sent_pos = (IF last_built.built THEN last_built.pos ELSE Pos(0, 0))
    /\ (last_built.built /\ last_built.transmitted)
          => (last_move.sent /\ last_move.pos = __sent_pos)
    /\ ~last_built.built => ~last_move.sent

C3_Witness ==
    /\ last_built.built
    /\ ~last_built.transmitted
    /\ last_move.sent
    /\ last_move.pos # __sent_pos
    /\ __ws # Null

\* C4 as stated: a touchstart handled with a socket set sends exactly the
\* mouse_move of the touch point and then the press of left, whatever
\* __sent_pos was.
C4_TouchStartSendsTwo ==
    (last_ev.op = "touchstart" /\ __ws # Null)
        => out = <<MoveMsg(__current_pos, image_size),
                   ButtonMsg("left", TRUE)>>

\* C4 amended: a touchstart handled with a socket set sends the mouse_move
\* of the rounded touch point and then the press of left when that point
\* differs from the __sent_pos it finds, and the press of left alone when
\* it equals it.
C4_TouchStartFlushesThenPresses ==
    [][(last_ev'.op = "touchstart" /\ __ws # Null)
       => out' = IF __current_pos' # __sent_pos
                 THEN <<MoveMsg(__current_pos', image_size),
                        ButtonMsg("left", TRUE)>>
                 ELSE <<ButtonMsg("left", TRUE)>>]_vars

C4_Witness ==
    /\ last_ev.op = "touchstart"
    /\ __ws # Null
    /\ out = <<MoveMsg(__current_pos, image_size), ButtonMsg("left", TRUE)>>
    /\ __current_pos = Pos(MaxX, 1)

\* C5: a touchend handled with a socket set sends the release of left and
\* nothing else, no mouse_move even when __current_pos differs from
\* __sent_pos, and leaves both positions as they were.
C5_TouchEndOnlyReleases ==
    [][(last_ev'.op = "touchend" /\ __ws # Null)
       => /\ out' = <<ButtonMsg("left", FALSE)>>
          /\ __current_pos' = __current_pos
          /\ __sent_pos' = __sent_pos]_vars

C5_Witness ==
    /\ last_ev.op = "touchend"
    /\ __ws # Null
    /\ __current_pos # __sent_pos
    /\ out = <<ButtonMsg("left", FALSE)>>

IsFlushOp(ev) ==
    \/ ev.op \in {"tick", "touchstart"}
    \/ IsMouseButtonOp(ev.op) /\ ev.button \in {0, 2}

\* C6 as stated: when N >= 1 mousemove events and no button or touch event
\* came between two consecutive ticks, the second tick, run with a socket
\* set, sends exactly one mouse_move, that of __current_pos.
C6_BurstSendsExactlyOne ==
    [][(/\ last_ev'.op = "tick"
        /\ __ws # Null
        /\ OpenInterval(since_tick).after_tick
        /\ OpenInterval(since_tick).motions >= 1
        /\ ~OpenInterval(since_tick).button_or_touch)
       => out' = <<MoveMsg(__current_pos, image_size)>>]_vars

\* C6 amended: under the same conditions the second tick sends at most one
\* mouse_move: exactly one, that of __current_pos at tick time, when that
\* position differs from __sent_pos, and none when the last of the N
\* samples is the position __sent_pos already holds.
C6_BurstSendsOneIfChanged ==
    [][(/\ last_ev'.op = "tick"
        /\ __ws # Null
        /\ OpenInterval(since_tick).after_tick
        /\ OpenInterval(since_tick).motions >= 1
        /\ ~OpenInterval(since_tick).button_or_touch)
       => /\ out' = IF __current_pos # __sent_pos
                    THEN <<MoveMsg(__current_pos, image_size)>>
                    ELSE <<>>
          /\ __sent_pos' = __current_pos]_vars

C6_Witness ==
    /\ last_ev.op = "tick"
    /\ __ws # Null
    /\ since_tick.closed
    /\ since_tick.after_tick
    /\ since_tick.motions = MaxBurst
    /\ ~since_tick.button_or_touch
    /\ out = <<MoveMsg(__current_pos, image_size)>>
    /\ __current_pos.y # 0

\* C7: a tick sends at most one mouse_move; the mouse_move messages sent
\* never outnumber the __sendMove invocations (ticks, recognised button
\* events, touchstarts); a mousemove event sends none.
C7_MovesBoundedByFlushes ==
    /\ [](n_move <= n_flush)
    /\ [][/\ last_ev'.op = "tick" => MovesIn(out') <= 1
          /\ n_flush' > n_flush => IsFlushOp(last_ev')
          /\ last_ev'.op = "mousemove" => n_move' = n_move /\ out' = <<>>]_vars

C7_Witness ==
    /\ n_flush = MaxFlush
    /\ n_move = MaxFlush
    /\ last_ev.op = "tick"
    /\ MovesIn(out) = 1

\* C8: when neither a mousemove nor a touchstart came between two
\* consecutive ticks, whatever else did, the second tick sends no
\* mouse_move and changes nothing.
C8_IdleTickIsNoOp ==
    [][(/\ last_ev'.op = "tick"
        /\ OpenInterval(since_tick).after_tick
        /\ OpenInterval(since_tick).motions = 0
        /\ ~OpenInterval(since_tick).touch_start)
       => (out' = <<>> /\ prog' = prog)]_vars

C8_Witness ==
    /\ last_ev.op = "tick"
    /\ since_tick.closed
    /\ since_tick.after_tick
    /\ since_tick.motions = 0
    /\ ~since_tick.touch_start
    /\ since_tick.button_or_touch
    /\ __ws # Null
    /\ __current_pos # Pos(0, 0)
    /\ out = <<>>

\* C9: a mouse_move goes out only from a flush (tick, recognised button
\* event, touchstart) and only when __current_pos differs from __sent_pos
\* in some axis at that flush.
C9_MoveOnlyOnChange ==
    [][MovesIn(out') > 0
       => /\ IsFlushOp(last_ev')
          /\ flushed' = 1
          /\ (\/ __current_pos'.x # __sent_pos.x
              \/ __current_pos'.y # __sent_pos.y)]_vars

C9_Witness ==
    /\ last_ev.op = "mouseup"
    /\ MovesIn(out) = 1
    /\ out[1] = MoveMsg(__current_pos, image_size)
    /\ __sent_pos = __current_pos

\* C10: a mousedown or mouseup whose code is neither 0 nor 2 sends nothing,
\* not even a pending mouse_move, changes nothing and does not call
\* preventDefault; codes 0 and 2 are sent as left and right.
C10_OtherButtonsIgnored ==
    [][/\ (IsMouseButtonOp(last_ev'.op) /\ last_ev'.button \notin {0, 2})
          => /\ out' = <<>>
             /\ prog' = prog
             /\ ~event'.default_prevented
       /\ (IsMouseButtonOp(last_ev'.op) /\ last_ev'.button \in {0, 2}
           /\ __ws # Null)
          => /\ out'[Len(out')] = ButtonMsg(NameOfCode(last_ev'.button),
                                            last_ev'.state)
             /\ event'.default_prevented]_vars

C10_Witness ==
    /\ last_ev.op = "mousedown"
    /\ last_ev.button = 1
    /\ __ws # Null
    /\ __current_pos # __sent_pos
    /\ out = <<>>
    /\ ~event.default_prevented

\* C11: a wheel event handled with a socket set sends, inside the handler,
\* exactly one mouse_wheel carrying the event's own (deltaX, deltaY); it
\* calls no flush, sends no mouse_move even when __current_pos differs from
\* __sent_pos, and leaves both positions as they were.  Two wheel events
\* are two messages: nothing is held back for a later handler or merged.
C11_WheelSendsAtOnce ==
    [][/\ \A dx \in Deltas, dy \in Deltas :
             (__wheelHandler(dx, dy) /\ __ws # Null)
                => out' = <<[event_type |-> "mouse_wheel",
                             delta |-> [x |-> dx, y |-> dy]]>>
       /\ last_ev'.op = "wheel"
             => /\ flushed' = 0
                /\ MovesIn(out') = 0
                /\ __ws # Null => (Len(out') = 1 /\ IsWheel(out'[1]))
                /\ __current_pos' = __current_pos
                /\ __sent_pos' = __sent_pos
       /\ (last_ev'.op # "wheel" /\ out' # <<>>)
             => \A i \in 1 .. Len(out') : ~IsWheel(out'[i])]_vars

C11_Witness ==
    /\ last_ev.op = "wheel"
    /\ __ws # Null
    /\ __current_pos # __sent_pos
    /\ out = <<[event_type |-> "mouse_wheel", delta |-> [x |-> 1, y |-> -1]]>>

\* C12: with no socket set every handler runs and sends nothing; setSocket
\* sends nothing; and what a handler sends once a socket is set is built
\* from that handler's own event and the state it finds: a mouse_move of
\* the __current_pos it leaves, a mouse_button of its own button and state,
\* or its own mouse_wheel.  Nothing is kept from the time without a socket.
FromThisHandler(m, ev, pos, size) ==
    \/ /\ IsMove(m)
       /\ IsFlushOp(ev)
       /\ m = MoveMsg(pos, size)
    \/ /\ IsButton(m)
       /\ \/ /\ IsMouseButtonOp(ev.op)
             /\ ev.button \in {0, 2}
             /\ m.button = NameOfCode(ev.button)
          \/ /\ ev.op \in {"touchstart", "touchend"}
             /\ m.button = "left"
       /\ m.state = ev.state
    \/ /\ IsWheel(m)
       /\ ev.op = "wheel"

C12_AbsentChannelIsSilent ==
    [][/\ __ws = Null => (out' = <<>> \/ last_ev'.op = "setSocket")
       /\ last_ev'.op = "setSocket" => out' = <<>>
       /\ \A i \in 1 .. Len(out') :
             FromThisHandler(out'[i], last_ev', __current_pos', image_size')
       /\ Len(out') <= 2]_vars

C12_Witness ==
    /\ last_ev.op = "mousedown"
    /\ last_ev.button = 0
    /\ __ws = Null
    /\ out = <<>>
    /\ flushed = 1
    /\ __sent_pos = __current_pos
    /\ __current_pos # Pos(0, 0)

IsInt16(n) == n.kind = "int" /\ n.v >= -32768 /\ n.v <= 32767

\* C13: every mouse_move sent carries integer x and y, both within
\* [-32768, 32767], whatever __current_pos and the image size are.
C13_MoveCoordinatesAreInt16 ==
    \A i \in 1 .. Len(out) :
        IsMove(out[i]) => (IsInt16(out[i].to.x) /\ IsInt16(out[i].to.y))

\* C14: a flush that finds a changed position while the image is 0 wide or
\* 0 high sends no mouse_move with an undefined coordinate: it skips the
\* send or sends a defined number.
C14_ZeroSizeIsGuarded ==
    (image_size.w = 0 \/ image_size.h = 0)
        => \A i \in 1 .. Len(out) :
              IsMove(out[i]) => (/\ out[i].to.x.kind = "int"
                                 /\ out[i].to.y.kind = "int")

\* C17: the led shows "Mouse tracked" exactly when a socket is set and the
\* pointer hovers the stream box, and "Mouse free" otherwise.
C17_LedShowsState ==
    /\ led_title \in {"Mouse tracked", "Mouse free"}
    /\ (led_title = "Mouse tracked") <=> (__ws # Null /\ __stream_hovered)

\* C18: mousemove, mouseenter and mouseleave send nothing.  A mousemove
\* changes __current_pos only; mouseenter and mouseleave change the hover
\* flag and the led only.
C18_MotionAndHoverAreLocal ==
    [][/\ last_ev'.op \in {"mousemove", "mouseenter", "mouseleave"}
          => /\ out' = <<>>
             /\ flushed' = 0
             /\ __ws' = __ws
             /\ __sent_pos' = __sent_pos
             /\ mouse_enabled' = mouse_enabled
             /\ image_size' = image_size
       /\ last_ev'.op = "mousemove"
          => /\ __stream_hovered' = __stream_hovered
             /\ led_title' = led_title
       /\ last_ev'.op \in {"mouseenter", "mouseleave"}
          => /\ __current_pos' = __current_pos
             /\ __stream_hovered' = (last_ev'.op = "mouseenter")]_vars

C18_Witness ==
    /\ last_ev.op = "mousemove"
    /\ __ws # Null
    /\ __current_pos # __sent_pos
    /\ __current_pos = Pos(MaxX, 1)
    /\ out = <<>>

\* C19: right after every flush (tick, recognised button event,
\* touchstart) __sent_pos equals __current_pos, socket or no socket,
\* message or no message; so while __current_pos is the position of a
\* mouse_move that was built and dropped for want of a socket, no flush
\* sends a mouse_move, also after a socket has been set.
C19_FlushAlwaysRecords ==
    [][/\ IsFlushOp(last_ev') => __sent_pos' = __current_pos'
       /\ (/\ IsFlushOp(last_ev')
           /\ last_built.built
           /\ ~last_built.transmitted
           /\ __current_pos' = last_built.pos)
          => (MovesIn(out') = 0 /\ last_move' = last_move)]_vars

C19_Witness ==
    /\ last_ev.op = "tick"
    /\ __ws # Null
    /\ last_built.built
    /\ ~last_built.transmitted
    /\ __current_pos = last_built.pos
    /\ __current_pos # Pos(0, 0)
    /\ ~last_move.sent
    /\ out = <<>>

\* C15 as stated: for an extent > 0 and a value p with 0 <= p < extent the
\* result is within [-32768, 32767], it is -32768 for p = 0 and within 1
\* of 32767 for p = extent - 1.
C15_LastPixelIsTop ==
    (norm.applied /\ norm.value < norm.extent)
        => /\ IsInt16(norm.result)
           /\ norm.value = 0 => norm.result.v = -32768
           /\ norm.value = norm.extent - 1
                 => (/\ norm.result.v >= 32766
                     /\ norm.result.v <= 32768)

\* C15 amended: for an extent > 0 and a value p with 0 <= p <= extent the
\* result is within [-32768, 32767]; it is -32768 for p = 0 and 32767 for
\* p = extent; for p = extent - 1 it is 32767 - 65535/extent within
\* rounding (at most 1/2 away from it), not 32767.
C15_ExtentIsTop ==
    norm.applied
        => /\ IsInt16(norm.result)
           /\ norm.value = 0 => norm.result.v = -32768
           /\ norm.value = norm.extent => norm.result.v = 32767
           /\ norm.value = norm.extent - 1
                 => LET gap == 2 * norm.extent * (32767 - norm.result.v)
                               - 2 * 65535
                    IN  gap <= norm.extent /\ gap >= -norm.extent

C15_Witness ==
    /\ norm.applied
    /\ norm.extent = 800
    /\ norm.value = 799
    /\ norm.result = Num(32685)

\* C16: the coordinates of a mouse_move sent are, per axis,
\* round(p / extent * 65535 - 32768), halves rounded up, with p from the
\* __current_pos of the flush and extent the image width (x) or height (y)
\* the flush reads (written as null by JSON when the extent is 0 and the
\* quotient is not a number); for a 800x600 image and the position
\* (400,300) each coordinate is -1 or 0.
RoundsTo(r, p, extent) ==
    LET twice == 2 * (p * 65535 - 32768 * extent) + extent
    IN  /\ 2 * r * extent <= twice
        /\ twice < 2 * r * extent + 2 * extent

IsCoordinateOf(c, p, extent) ==
    IF extent > 0
    THEN c.kind = "int" /\ RoundsTo(c.v, p, extent)
    ELSE c.kind = "null"

C16_CoordinatesAreRounded ==
    /\ [](LET to == MoveMsg(Pos(400, 300), [w |-> 800, h |-> 600]).to
          IN  /\ to.x.kind = "int" /\ to.x.v \in {-1, 0}
              /\ to.y.kind = "int" /\ to.y.v \in {-1, 0})
    /\ [][\A i \in 1 .. Len(out') :
             IsMove(out'[i])
                => /\ IsCoordinateOf(out'[i].to.x, __current_pos'.x,
                                     image_size.w)
                   /\ IsCoordinateOf(out'[i].to.y, __current_pos'.y,
                                     image_size.h)]_vars

C16_Witness ==
    /\ last_ev.op = "tick"
    /\ image_size = [w |-> 2, h |-> 2]
    /\ __current_pos = Pos(1, 1)
    /\ out = <<[event_type |-> "mouse_move",
                to |-> [x |-> Num(0), y |-> Num(0)]]>>

Positions == {Pos(px, py) : px \in 0 .. MaxX, py \in {0, 1}}

MoveJustSentFor(p) ==
    /\ __sent_pos = p
    /\ out # <<>>
    /\ out[1] = MoveMsg(p, image_size)

\* C20: with the interval callback running for ever, once the pointer rests
\* at P with a socket set: if P differs from __sent_pos, a mouse_move for P
\* is sent (unless the pointer moves or the socket goes first); __sent_pos
\* ends up equal to P; and while __sent_pos equals __current_pos and
\* __current_pos does not change, no handler sends a mouse_move.
C20_RestingPositionIsDelivered ==
    /\ \A p \in Positions :
          (__current_pos = p /\ __sent_pos # p /\ __ws # Null)
             ~> (__current_pos # p \/ __ws = Null \/ MoveJustSentFor(p))
    /\ \A p \in Positions :
          <>[](__current_pos = p) => <>[](__sent_pos = p)
    /\ [][(__sent_pos = __current_pos /\ __current_pos' = __current_pos)
             => (MovesIn(out') = 0 /\ __sent_pos' = __sent_pos)]_vars

C20_Witness ==
    /\ last_ev.op = "tick"
    /\ __ws # Null
    /\ __current_pos = Pos(MaxX, 1)
    /\ MoveJustSentFor(__current_pos)

====
